---- MODULE Spec2Model ----
(***************************************************************************)
(* Real-time session manager of the AI language tutor service:             *)
(*   app/usage.py                   per-client usage counters              *)
(*   app/realtime/openai_client.py  upstream connection and translation    *)
(*   app/realtime/session.py        RealtimeSession, relay task, registry  *)
(*   app/realtime/routes.py         offer, limit and websocket endpoints   *)
(* Every coroutine runs on one asyncio event loop: a step of the model is  *)
(* the code a task runs between two suspension points (awaits on network   *)
(* I/O or on another task).                                                *)
(***************************************************************************)
EXTENDS Integers, Sequences, FiniteSets, TLC

\* ------------------------------------------------------------------ bounds
\* offer requests served (each allocates one session identifier)
MaxOffers == 2
\* browser websocket connections accepted
MaxConns == 2
\* upstream messages consumed by all relay tasks together
MaxUpstream == 2
\* a single session: offers served and upstream messages consumed
MaxRelayOffers == 1
MaxRelayUpstream == 3
\* calls of clear_client_usage
MaxResets == 1
\* messages the browsers submit on their websockets, all together
MaxClientMsgs == 1
\* a single session under browser traffic: messages submitted and upstream
\* messages consumed
MaxUplinkMsgs == 3
MaxUplinkUpstream == 1
\* a single session from creation to teardown: upstream messages consumed
MaxCloseUpstream == 2
\* a single session fed audio deltas of many sizes: messages consumed
MaxChargeUpstream == 2
\* two sessions with silent browsers: upstream messages consumed
MaxPairUpstream == 2

\* ------------------------------------------------------- program constants
MAX_AUDIO_LENGTH_SECONDS == 30
MAX_AI_MS == MAX_AUDIO_LENGTH_SECONDS * 1000

\* ------------------------------------------------------------------ inputs
Clients == {"c1"}
SessionIds == 1..MaxOffers
ConnIds == 1..MaxConns
\* identities of SessionUsage objects; more than are ever allocated
UsageIds == 1..(2 * MaxOffers + MaxResets + 1)

\* decoded payload sizes in bytes of the audio deltas upstream sends:
\* empty, under one millisecond, 20 s and 45 s of 24 kHz PCM16
AudioSizes == {0, 40, 960000, 2160000}

NoType == "<none>"
NonStringType == "<non-string>"
UnknownType == "rate_limits.updated"
UpstreamTypes ==
    {"session.created", "session.updated", "response.audio.delta",
     "response.audio_transcript.delta",
     "conversation.item.input_audio_transcription.delta",
     "response.started", "response.done",
     UnknownType, NoType, NonStringType}

\* the JSON messages the upstream service may deliver; n is the decoded size
\* of the "delta" payload of an audio delta
UpstreamMsgs ==
    {[type |-> t, n |-> 0] : t \in UpstreamTypes \ {"response.audio.delta"}}
    \cup {[type |-> "response.audio.delta", n |-> n] : n \in AudioSizes}

\* first messages of a connection: the acknowledgment, and another message
HandshakeMsgs == {m \in UpstreamMsgs : m.type \in {"session.created", "session.updated"}}

\* the messages concurrent sessions are fed: the non-empty audio deltas, one
\* other recognized and one unrecognized message
MeteredMsgs ==
    {m \in UpstreamMsgs :
        \/ m.type = "response.audio.delta" /\ m.n > 0
        \/ m.type \in {"response.done", UnknownType}}

\* decoded payload sizes of single audio deltas charged to the meter: under
\* and at one millisecond, 1001 ms, and the quota
ChargeSizes == {47, 48, 48048, 1440000}

ChargeMsgs == {[type |-> "response.audio.delta", n |-> n] : n \in ChargeSizes}

\* the messages two sessions with silent browsers are fed: one audio delta
\* and one other event
PairMsgs ==
    {m \in UpstreamMsgs :
        \/ m.type = "response.audio.delta" /\ m.n = 960000
        \/ m.type = "response.done"}

VARIABLES
    clients,          \* usage._clients: client id -> usage object, 0 = no entry
    usage,            \* the SessionUsage objects ever created, by object id
    session,          \* the RealtimeSession objects, by session identifier
    transport,        \* the upstream websocket of each session's client
    active_sessions,  \* session.active_sessions (its keys)
    conn,             \* the browser websockets and their endpoint handlers
    last,             \* what the relay loop did in the latest step, if it ran
    resets,           \* clear_client_usage calls so far, per client
    consumed          \* upstream messages consumed so far by relay tasks

vars == <<clients, usage, session, transport, active_sessions, conn,
          last, resets, consumed>>

NoCall == [made |-> FALSE, metered |-> FALSE]

\* --------------------------------------------------------------- usage.py
\* add_ai_ms comparing the amount alone with the quota
add_ai_ms_amount_only(ai, amount_ms) ==
    IF amount_ms > MAX_AI_MS
    THEN [ai_ms |-> MAX_AI_MS, ok |-> FALSE]
    ELSE [ai_ms |-> ai + amount_ms, ok |-> TRUE]

\* add_ai_ms leaving the counter as it is on a denial
add_ai_ms_without_clamp(ai, amount_ms) ==
    IF ai + amount_ms > MAX_AI_MS
    THEN [ai_ms |-> ai, ok |-> FALSE]
    ELSE [ai_ms |-> ai + amount_ms, ok |-> TRUE]

\* SessionUsage.add_ai_ms on a counter holding ai: the new value and the result
add_ai_ms(ai, amount_ms) ==
    IF ai + amount_ms > MAX_AI_MS
    THEN [ai_ms |-> MAX_AI_MS, ok |-> FALSE]
    ELSE [ai_ms |-> ai + amount_ms, ok |-> TRUE]

\* SessionUsage(): the identity of a newly constructed object
FreshUsage(us) ==
    CHOOSE u \in UsageIds : ~us[u].live /\ \A v \in UsageIds : ~us[v].live => u <= v

\* get_or_create_client_usage handing out a new object on every call
get_or_create_unshared(cl, us, client_id) ==
    [obj |-> FreshUsage(us),
     clients |-> [cl EXCEPT ![client_id] = FreshUsage(us)],
     usage |-> [us EXCEPT ![FreshUsage(us)] =
                   [live |-> TRUE, ai_ms |-> 0, accepted |-> 0, denied |-> FALSE]]]

\* get_or_create_client_usage: the object returned and the maps afterwards
\* on the maps cl (_clients) and us (the objects)
get_or_create_client_usage(cl, us, client_id) ==
    IF cl[client_id] # 0
    THEN [obj |-> cl[client_id], clients |-> cl, usage |-> us]
    ELSE [obj |-> FreshUsage(us),
          clients |-> [cl EXCEPT ![client_id] = FreshUsage(us)],
          usage |-> [us EXCEPT ![FreshUsage(us)] =
                        [live |-> TRUE, ai_ms |-> 0, accepted |-> 0,
                         denied |-> FALSE]]]

\* clear_client_usage: pops the entry; objects held by sessions stay alive.
\* A call for a client that has no entry changes nothing and is left out.
clear_client_usage(client_id) ==
    /\ clients[client_id] # 0
    /\ resets[client_id] < MaxResets
    /\ clients' = [clients EXCEPT ![client_id] = 0]
    /\ resets' = [resets EXCEPT ![client_id] = @ + 1]
    /\ last' = NoCall
    /\ UNCHANGED <<usage, session, transport, active_sessions, conn, consumed>>

\* ------------------------------------------------------- openai_client.py
NoEvent == [type |-> "<dropped>", code |-> "", seq |-> 0, n |-> 0]

Event(type, seq, n) == [type |-> type, code |-> "", seq |-> seq, n |-> n]

\* listen() yielding an event for a message of unrecognized type as well
listen_forward_unknown(m, seq) ==
    CASE m.type = "session.created" -> NoEvent
      [] m.type = "session.updated" -> NoEvent
      [] m.type = "response.audio.delta" ->
            IF m.n > 0 THEN Event("audio", seq, m.n) ELSE NoEvent
      [] m.type = "response.audio_transcript.delta" -> Event("ai_transcript", seq, 0)
      [] m.type = "conversation.item.input_audio_transcription.delta" ->
            Event("user_transcript", seq, 0)
      [] m.type = "response.started" -> Event("response_started", seq, 0)
      [] m.type = "response.done" -> Event("response_done", seq, 0)
      [] OTHER -> Event(m.type, seq, 0)

\* OpenAIRealtimeClient.listen: what one upstream message, the seq-th the
\* generator consumes, yields to the relay loop
listen(m, seq) ==
    CASE m.type = "session.created" -> NoEvent
      [] m.type = "session.updated" -> NoEvent
      [] m.type = "response.audio.delta" ->
            IF m.n > 0 THEN Event("audio", seq, m.n) ELSE NoEvent
      [] m.type = "response.audio_transcript.delta" -> Event("ai_transcript", seq, 0)
      [] m.type = "conversation.item.input_audio_transcription.delta" ->
            Event("user_transcript", seq, 0)
      [] m.type = "response.started" -> Event("response_started", seq, 0)
      [] m.type = "response.done" -> Event("response_done", seq, 0)
      [] OTHER -> NoEvent

\* ------------------------------------------------------------- session.py
\* Python evaluates (len(audio_bytes) / 2) / 24_000 * 1000 in IEEE 754
\* binary64: each operation returns the exact result rounded to 53
\* significant bits, ties to even.  Naturals beyond 31 bits are kept as
\* sequences of bits, most significant first, and for the arithmetic as
\* sequences of digits of 10 bits.
Radix == 1024

\* the value of a sequence of at most 31 bits
RECURSIVE Value(_)
Value(b) ==
    IF Len(b) = 0 THEN 0
    ELSE IF Len(b) = 1 THEN b[1]
    ELSE LET h == Len(b) \div 2 IN
         Value(SubSeq(b, 1, h)) * 2^(Len(b) - h) + Value(SubSeq(b, h + 1, Len(b)))

\* the bits of a sequence of digits, and the digits of a sequence of bits
\* (padded in front to a multiple of 10)
Bits(ds) ==
    [i \in 1..(10 * Len(ds)) |->
        (ds[(i - 1) \div 10 + 1] \div 2^(9 - ((i - 1) % 10))) % 2]

Digits(b) ==
    LET k == (Len(b) + 9) \div 10
        padded == [i \in 1..(10 * k - Len(b)) |-> 0] \o b
    IN [j \in 1..k |-> Value(SubSeq(padded, 10 * j - 9, 10 * j))]

\* without the leading zeros
Strip(b) ==
    IF \A i \in DOMAIN b : b[i] = 0 THEN <<>>
    ELSE SubSeq(b, CHOOSE i \in DOMAIN b :
                       b[i] = 1 /\ \A j \in 1..(i - 1) : b[j] = 0, Len(b))

\* b + 1
Inc(b) ==
    IF \A i \in DOMAIN b : b[i] = 1 THEN <<1>> \o [i \in DOMAIN b |-> 0]
    ELSE LET k == CHOOSE i \in DOMAIN b :
                      b[i] = 0 /\ \A j \in (i + 1)..Len(b) : b[j] = 1
         IN [i \in DOMAIN b |-> IF i < k THEN b[i] ELSE IF i = k THEN 1 ELSE 0]

\* quotient and remainder of the digits ds by the small divisor d
RECURSIVE DivDigits(_, _, _, _, _)
DivDigits(ds, d, i, rem, q) ==
    IF i > Len(ds) THEN [q |-> q, rem |-> rem]
    ELSE DivDigits(ds, d, i + 1, (rem * Radix + ds[i]) % d,
                   Append(q, (rem * Radix + ds[i]) \div d))

\* the digits ds times the small factor c
RECURSIVE MulDigits(_, _, _, _, _)
MulDigits(ds, c, i, carry, out) ==
    IF i = 0 THEN <<carry>> \o out
    ELSE MulDigits(ds, c, i - 1, (ds[i] * c + carry) \div Radix,
                   <<(ds[i] * c + carry) % Radix>> \o out)

\* extra low-order digits carried through the division
GuardDigits == 7

\* the 53-bit significand m and the exponent with b ~ m * 2^shift, for b of
\* 54 bits or more followed by a non-zero tail iff sticky
RoundToDouble(b, sticky) ==
    LET m == SubSeq(b, 1, 53)
        tail == sticky \/ \E i \in 55..Len(b) : b[i] = 1
        up == b[54] = 1 /\ (tail \/ m[53] = 1)
        m1 == IF up THEN Inc(m) ELSE m
    IN IF Len(m1) = 54
       THEN [m |-> SubSeq(m1, 1, 53), shift |-> Len(b) - 52]
       ELSE [m |-> m1, shift |-> Len(b) - 53]

\* int((n / 2) / 24_000 * 1000): n / 2 is exact, the quotient by 24000 is
\* the rounding of n / 48000, the product by 1000 is rounded again, and
\* int() drops the fraction
FloatAiMs(n) ==
    IF n = 0 THEN 0
    ELSE LET nd == <<n \div Radix^3, (n \div Radix^2) % Radix,
                     (n \div Radix) % Radix, n % Radix>>
             d == DivDigits(nd \o [i \in 1..GuardDigits |-> 0], 48000, 1, 0, <<>>)
             q == RoundToDouble(Strip(Bits(d.q)), d.rem # 0)
             p == RoundToDouble(
                      Strip(Bits(MulDigits(Digits(q.m), 1000, Len(Digits(q.m)), 0, <<>>)))
                      \o <<0>>, FALSE)
             keep == 53 + (p.shift - 1) + q.shift - 10 * GuardDigits
         IN IF keep <= 0 THEN 0 ELSE Value(SubSeq(p.m, 1, keep))

\* int((n / 2) / 24_000 * 1000) for the payload sizes upstream sends
ai_ms == [n \in AudioSizes \cup ChargeSizes |-> FloatAiMs(n)]

\* the duration in ms the relay loop charges for n decoded bytes
AiMs(n) == ai_ms[n]

LimitError == [type |-> "error", code |-> "LIMIT_REACHED", seq |-> 0, n |-> 0]
NotFoundError == [type |-> NoType, code |-> "Session not found", seq |-> 0, n |-> 0]

\* states of the relay task in which it is suspended and can be cancelled
Running == {"recv", "limit_sent", "close_up", "close_cl"}

\* states of the relay task in which it has not terminated: suspended, or
\* cancelled by listen_task.cancel() with the CancelledError not yet raised
Pending == Running \cup {"cancelling"}

\* WebSocket.send_json on link w: the event is delivered when the link is
\* open; otherwise the call raises
CanSend(cn, w) == cn[w].link = "open"

\* send_json putting the event in front of what the link delivered before
send_json_in_front(cn, w, ev) == [cn EXCEPT ![w].log = <<ev>> \o @]

send_json(cn, w, ev) == [cn EXCEPT ![w].log = Append(@, ev)]

\* _send_limit_error sending nothing
send_limit_error_silent(cn, w) == cn

\* RealtimeSession._send_limit_error on the attached link w
send_limit_error(cn, w) == send_json(cn, w, LimitError)

\* RealtimeSession.close, as run from one suspension point to the next.  st
\* holds the objects the call touches; st.at tells where the call is
\* suspended afterwards ("returned" when it ran to its end).  who is the
\* endpoint handler that runs the call, 0 when the relay task runs it.
\* note that handler who invoked a close on the upstream or on the link
Invoked(st, who, what) ==
    IF who = 0 THEN st
    ELSE [st EXCEPT !.conn[who].invoked = @ \cup {what}]

\* close() returns
Returned(st, s) == [st EXCEPT !.session[s].closed = TRUE, !.at = "returned"]

\* last step: close the client link if one is attached (errors are swallowed)
CloseClientLink(st, s, who) ==
    LET w == st.session[s].client_ws IN
    IF w = 0 THEN Returned(st, s)
    ELSE IF st.conn[w].link = "open"
    THEN Invoked([st EXCEPT !.conn[w].link = "closed",
                            !.conn[w].close_calls = @ + 1,
                            !.at = "cl_closing"], who, "link")
    ELSE Invoked(Returned([st EXCEPT !.conn[w].close_calls = @ + 1], s), who, "link")

\* OpenAIRealtimeClient.close up to its await of ws.close()
CloseUpstream(st, s, who) ==
    IF st.session[s].ws = "set"
    THEN Invoked([st EXCEPT !.transport[s].state = "closed",
                            !.transport[s].close_calls = @ + 1,
                            !.at = "up_closing"], who, "upstream")
    ELSE CloseClientLink(st, s, who)

\* OpenAIRealtimeClient.close after ws.close() returned: self.ws = None
UpstreamClosed(st, s, who) ==
    CloseClientLink([st EXCEPT !.session[s].ws = "None"], s, who)

\* close() cancelling the relay task without awaiting it
close_without_await(st, s, who) ==
    LET st1 == [st EXCEPT !.session[s].is_active = FALSE] IN
    IF who # 0 /\ st.session[s].listen_task \in Pending
    THEN CloseUpstream([st1 EXCEPT !.session[s].listen_task = "cancelling"], s, who)
    ELSE CloseUpstream(st1, s, who)

\* close() cancelling and awaiting the relay task whoever calls it
close_always_cancels(st, s, who) ==
    LET st1 == [st EXCEPT !.session[s].is_active = FALSE] IN
    IF st.session[s].listen_task \in Pending
    THEN [st1 EXCEPT !.session[s].listen_task = "cancelling", !.at = "await_task"]
    ELSE CloseUpstream(st1, s, who)

\* entry of close()
close(st, s, who) ==
    LET st1 == [st EXCEPT !.session[s].is_active = FALSE] IN
    IF who # 0 /\ st.session[s].listen_task \in Pending
    THEN [st1 EXCEPT !.session[s].listen_task = "cancelling", !.at = "await_task"]
    ELSE CloseUpstream(st1, s, who)

World == [session |-> session, transport |-> transport, conn |-> conn, at |-> "running"]

Apply(st) ==
    /\ session' = st.session
    /\ transport' = st.transport
    /\ conn' = st.conn

\* where the relay task stands after a step of its own call of close()
RelayAt(at) ==
    CASE at = "up_closing" -> "close_up"
      [] at = "cl_closing" -> "close_cl"
      [] OTHER -> "done"

\* the relay loop metering an audio event before looking at client_ws
listen_to_openai_meters_unattached(s, m) ==
    LET seq == session[s].seq + 1
        ev == listen(m, seq)
        w == session[s].client_ws
        u == session[s].usage
        metered == ev # NoEvent /\ ev.type = "audio" /\ ev.n > 0
        r == add_ai_ms(usage[u].ai_ms, AiMs(ev.n))
        denied == metered /\ ~r.ok
    IN
    /\ session[s].listen_task = "recv"
    /\ transport[s].state = "open"
    /\ consumed' = consumed + 1
    /\ last' = IF metered
               THEN [made |-> TRUE, metered |-> TRUE, sid |-> s, msg |-> m,
                     obj |-> u, amount |-> AiMs(ev.n), ok |-> r.ok,
                     before |-> usage[u]]
               ELSE [made |-> TRUE, metered |-> FALSE, sid |-> s, msg |-> m]
    /\ usage' = IF metered
                THEN [usage EXCEPT
                        ![u].ai_ms = r.ai_ms,
                        ![u].accepted = IF r.ok THEN @ + AiMs(ev.n) ELSE @,
                        ![u].denied = @ \/ ~r.ok]
                ELSE usage
    /\ UNCHANGED <<clients, transport, active_sessions, resets>>
    /\ IF ev = NoEvent \/ w = 0
       THEN /\ session' = [session EXCEPT ![s].seq = seq]
            /\ UNCHANGED conn
       ELSE /\ conn' = IF CanSend(conn, w)
                       THEN IF denied THEN send_limit_error(conn, w)
                            ELSE send_json(conn, w, ev)
                       ELSE conn
            /\ session' = [session EXCEPT
                   ![s].seq = seq,
                   ![s].accepted = IF metered /\ r.ok THEN @ + AiMs(ev.n) ELSE @,
                   ![s].listen_task =
                       IF ~CanSend(conn, w) THEN "done"
                       ELSE IF denied THEN "limit_sent" ELSE "recv"]

\* RealtimeSession._listen_to_openai: one iteration of the relay loop, from
\* the arrival of upstream message m to the next suspension
listen_to_openai(s, m) ==
    LET seq == session[s].seq + 1
        ev == listen(m, seq)
        w == session[s].client_ws
        u == session[s].usage
        metered == ev # NoEvent /\ w # 0 /\ ev.type = "audio" /\ ev.n > 0
        r == add_ai_ms(usage[u].ai_ms, AiMs(ev.n))
        denied == metered /\ ~r.ok
    IN
    /\ session[s].listen_task = "recv"
    /\ transport[s].state = "open"
    /\ consumed' = consumed + 1
    /\ last' = IF metered
               THEN [made |-> TRUE, metered |-> TRUE, sid |-> s, msg |-> m,
                     obj |-> u, amount |-> AiMs(ev.n), ok |-> r.ok,
                     before |-> usage[u]]
               ELSE [made |-> TRUE, metered |-> FALSE, sid |-> s, msg |-> m]
    /\ usage' = IF metered
                THEN [usage EXCEPT
                        ![u].ai_ms = r.ai_ms,
                        ![u].accepted = IF r.ok THEN @ + AiMs(ev.n) ELSE @,
                        ![u].denied = @ \/ ~r.ok]
                ELSE usage
    /\ UNCHANGED <<clients, transport, active_sessions, resets>>
    /\ IF ev = NoEvent \/ w = 0
       THEN /\ session' = [session EXCEPT ![s].seq = seq]
            /\ UNCHANGED conn
       ELSE /\ conn' = IF CanSend(conn, w)
                       THEN IF denied THEN send_limit_error(conn, w)
                            ELSE send_json(conn, w, ev)
                       ELSE conn
            /\ session' = [session EXCEPT
                   ![s].seq = seq,
                   ![s].accepted = IF metered /\ r.ok THEN @ + AiMs(ev.n) ELSE @,
                   ![s].listen_task =
                       IF ~CanSend(conn, w) THEN "done"
                       ELSE IF denied THEN "limit_sent" ELSE "recv"]

\* the relay task, after the limit error went out, enters its own close()
relay_close(s) ==
    /\ session[s].listen_task = "limit_sent"
    /\ LET st == close(World, s, 0) IN
       Apply([st EXCEPT !.session[s].listen_task = RelayAt(st.at)])
    /\ last' = NoCall
    /\ UNCHANGED <<clients, usage, active_sessions, resets, consumed>>

\* ... resumes when the upstream ws.close() returns, or raises: the
\* exception leaves close() and is caught by the except clause of the loop
relay_close_upstream_done(s, ok) ==
    /\ session[s].listen_task = "close_up"
    /\ IF ok
       THEN LET st == UpstreamClosed(World, s, 0) IN
            Apply([st EXCEPT !.session[s].listen_task = RelayAt(st.at)])
       ELSE /\ session' = [session EXCEPT ![s].listen_task = "done"]
            /\ UNCHANGED <<transport, conn>>
    /\ last' = NoCall
    /\ UNCHANGED <<clients, usage, active_sessions, resets, consumed>>

\* ... resumes when client_ws.close() returns; close() returns; break
relay_close_done(s) ==
    /\ session[s].listen_task = "close_cl"
    /\ session' = [session EXCEPT ![s].listen_task = "done", ![s].closed = TRUE]
    /\ last' = NoCall
    /\ UNCHANGED <<clients, usage, transport, active_sessions, conn, resets, consumed>>

\* the CancelledError of listen_task.cancel() is raised in the relay task at
\* its await; no except clause of the task catches it and the task ends
relay_cancelled(s) ==
    /\ session[s].listen_task = "cancelling"
    /\ session' = [session EXCEPT ![s].listen_task = "cancelled"]
    /\ last' = NoCall
    /\ UNCHANGED <<clients, usage, transport, active_sessions, conn, resets, consumed>>

\* the upstream service closes the connection, or the transport fails:
\* listen() ends its generator and the relay loop ends
upstream_ends(s) ==
    /\ transport[s].state = "open"
    /\ session[s].phase = "live"
    /\ transport' = [transport EXCEPT ![s].state = "closed"]
    /\ session' = [session EXCEPT
           ![s].listen_task = IF @ = "recv" THEN "done" ELSE @]
    /\ last' = NoCall
    /\ UNCHANGED <<clients, usage, active_sessions, conn, resets, consumed>>

\* -------------------------------------------------------------- routes.py
NoSession ==
    [phase |-> "unused", client_id |-> "", usage |-> 0, epoch |-> 0,
     client_ws |-> 0, is_active |-> FALSE, ws |-> "None",
     listen_task |-> "none", seq |-> 0, accepted |-> 0,
     ack |-> NoType, closed |-> FALSE]

\* the quota gate letting a client through that is exactly at the quota
at_quota_strict(ai) == ai > MAX_AI_MS

\* the quota gate of create_webrtc_offer and get_limit_status
at_quota(ai) == ai >= MAX_AI_MS

\* the identifier uuid4 hands to the next offer request
NextSessionId == Cardinality({s \in SessionIds : session[s].phase # "unused"}) + 1

\* create_webrtc_offer up to its first suspension: the quota gate, then
\* create_realtime_session -> RealtimeSession.__init__ -> initialize, which
\* awaits the upstream connection
create_webrtc_offer(client_id) ==
    LET s == NextSessionId
        gate == get_or_create_client_usage(clients, usage, client_id)
        g == get_or_create_client_usage(gate.clients, gate.usage, client_id)
    IN
    /\ s \in SessionIds
    /\ session[s].phase = "unused"
    /\ clients' = IF at_quota(gate.usage[gate.obj].ai_ms) THEN gate.clients ELSE g.clients
    /\ usage' = IF at_quota(gate.usage[gate.obj].ai_ms) THEN gate.usage ELSE g.usage
    /\ session' = [session EXCEPT ![s] =
           IF at_quota(gate.usage[gate.obj].ai_ms)
           THEN [NoSession EXCEPT !.phase = "limit", !.client_id = client_id]
           ELSE [NoSession EXCEPT !.phase = "connecting", !.client_id = client_id,
                                  !.usage = g.obj, !.epoch = resets[client_id]]]
    /\ last' = NoCall
    /\ UNCHANGED <<transport, active_sessions, conn, resets, consumed>>

\* what a call of get_limit_status leaves in last
LimitStatus(client_id, limit_reached) ==
    [made |-> FALSE, metered |-> FALSE, status |-> TRUE,
     client_id |-> client_id, limit_reached |-> limit_reached]

\* get_limit_status reporting the limit only above the quota
get_limit_status_above_quota(client_id) ==
    LET g == get_or_create_client_usage(clients, usage, client_id) IN
    /\ clients' = g.clients
    /\ usage' = g.usage
    /\ last' = LimitStatus(client_id, g.usage[g.obj].ai_ms > MAX_AI_MS)
    /\ UNCHANGED <<session, transport, active_sessions, conn, resets, consumed>>

\* get_limit_status: looks the client's counter up, creating it for a client
\* without entry, and reports whether it is at the quota; the handler
\* awaits nothing
get_limit_status(client_id) ==
    LET g == get_or_create_client_usage(clients, usage, client_id) IN
    /\ clients' = g.clients
    /\ usage' = g.usage
    /\ last' = LimitStatus(client_id, at_quota(g.usage[g.obj].ai_ms))
    /\ UNCHANGED <<session, transport, active_sessions, conn, resets, consumed>>

\* connect() taking any first message for the acknowledgment
acknowledged_any(m) == TRUE

\* connect(): the first message received is the acknowledgment
acknowledged(m) == m.type = "session.created"

\* initialize() setting is_active and creating the relay task before connect()
initialize_active_first(s, opened, m) ==
    /\ session[s].phase = "connecting"
    /\ IF ~opened
       THEN /\ session' = [session EXCEPT ![s].phase = "failed",
                                          ![s].is_active = TRUE,
                                          ![s].listen_task = "recv"]
            /\ UNCHANGED <<transport, active_sessions>>
       ELSE /\ transport' = [transport EXCEPT ![s].state = "open"]
            /\ IF acknowledged(m)
               THEN /\ session' = [session EXCEPT ![s].phase = "live",
                                                  ![s].ack = m.type,
                                                  ![s].ws = "set",
                                                  ![s].is_active = TRUE,
                                                  ![s].listen_task = "recv"]
                    /\ active_sessions' = active_sessions \cup {s}
               ELSE /\ session' = [session EXCEPT ![s].phase = "failed",
                                                  ![s].ack = m.type,
                                                  ![s].ws = "set",
                                                  ![s].is_active = TRUE,
                                                  ![s].listen_task = "recv"]
                    /\ UNCHANGED active_sessions
    /\ last' = NoCall
    /\ UNCHANGED <<clients, usage, conn, resets, consumed>>

\* create_realtime_session from the connection attempt to its return.
\* OpenAIRealtimeClient.connect: websockets.connect raises (opened = FALSE) or
\* returns; the configuration is sent and the first message m is awaited; on
\* session.created initialize() sets is_active and creates the relay task,
\* and the session is registered.  Any other first message raises out of
\* create_realtime_session, with the transport left as it is.  The awaits
\* inside touch no shared object, so the call is one step.
initialize(s, opened, m) ==
    /\ session[s].phase = "connecting"
    /\ IF ~opened
       THEN /\ session' = [session EXCEPT ![s].phase = "failed"]
            /\ UNCHANGED <<transport, active_sessions>>
       ELSE /\ transport' = [transport EXCEPT ![s].state = "open"]
            /\ IF acknowledged(m)
               THEN /\ session' = [session EXCEPT ![s].phase = "live",
                                                  ![s].ack = m.type,
                                                  ![s].ws = "set",
                                                  ![s].is_active = TRUE,
                                                  ![s].listen_task = "recv"]
                    /\ active_sessions' = active_sessions \cup {s}
               ELSE /\ session' = [session EXCEPT ![s].phase = "failed",
                                                  ![s].ack = m.type,
                                                  ![s].ws = "set"]
                    /\ UNCHANGED active_sessions
    /\ last' = NoCall
    /\ UNCHANGED <<clients, usage, conn, resets, consumed>>

\* where an endpoint handler stands after a step of its call of close()
HandlerAt(at) ==
    CASE at = "await_task" -> "await_task"
      [] at = "up_closing" -> "up_closing"
      [] at = "cl_closing" -> "cl_closing"
      [] OTHER -> "returned"

\* close_session leaving the entry in the registry
Finish_keeps_entry(st, w, s, active) ==
    IF HandlerAt(st.at) # "returned"
    THEN /\ Apply([st EXCEPT !.conn[w].pc = HandlerAt(st.at)])
         /\ active_sessions' = active
    ELSE /\ Apply([st EXCEPT !.conn[w].pc = "done"])
         /\ active_sessions' = active

\* close_session after session.close() returned: del active_sessions[sid]
\* (a KeyError when another call deleted the entry meanwhile)
Finish(st, w, s, active) ==
    IF HandlerAt(st.at) # "returned"
    THEN /\ Apply([st EXCEPT !.conn[w].pc = HandlerAt(st.at)])
         /\ active_sessions' = active
    ELSE /\ Apply([st EXCEPT !.conn[w].pc =
                      IF s \in active THEN "done" ELSE "KeyError"])
         /\ active_sessions' = active \ {s}

\* close_session(session_id), called in the finally clause of
\* websocket_endpoint, up to its first suspension
close_session(w) ==
    LET s == conn[w].sid IN
    IF s \notin active_sessions
    THEN /\ conn' = [conn EXCEPT ![w].pc = "done"]
         /\ UNCHANGED <<session, transport, active_sessions>>
    ELSE Finish(close(World, s, w), w, s, active_sessions)

\* websocket_endpoint attaching the websocket without looking the session up
websocket_endpoint_without_lookup(w, session_id) ==
    /\ conn[w].pc = "idle"
    /\ \A v \in ConnIds : v < w => conn[v].pc # "idle"
    /\ conn' = [conn EXCEPT ![w] =
           [@ EXCEPT !.pc = "receive", !.sid = session_id, !.link = "open"]]
    /\ session' = [session EXCEPT ![session_id].client_ws = w]
    /\ last' = NoCall
    /\ UNCHANGED <<clients, usage, transport, active_sessions, resets, consumed>>

\* websocket_endpoint: accept, look the session up, attach the websocket
websocket_endpoint(w, session_id) ==
    /\ conn[w].pc = "idle"
    /\ \A v \in ConnIds : v < w => conn[v].pc # "idle"
    /\ IF session_id \notin active_sessions
       THEN /\ conn' = [conn EXCEPT ![w] =
                   [@ EXCEPT !.pc = "done", !.sid = session_id, !.link = "closed",
                             !.close_calls = 1, !.log = <<NotFoundError>>]]
            /\ UNCHANGED session
       ELSE /\ conn' = [conn EXCEPT ![w] =
                   [@ EXCEPT !.pc = "receive", !.sid = session_id, !.link = "open"]]
            /\ session' = [session EXCEPT ![session_id].client_ws = w]
    /\ last' = NoCall
    /\ UNCHANGED <<clients, usage, transport, active_sessions, resets, consumed>>

ClientMsgTypes == {"audio", "stop_speaking", "ping"}

\* the JSON messages a browser submits; n is the length of the "audio" field
ClientMsgs ==
    {[type |-> "audio", n |-> n] : n \in {0, 960}}
    \cup {[type |-> t, n |-> 0] : t \in ClientMsgTypes \ {"audio"}}

\* browser messages submitted so far on all websockets
Submitted == conn[1].submitted + conn[2].submitted

\* ws.send on the upstream connection of session s goes through: the client
\* object still holds the connection and the connection is open.  With
\* self.ws None, send_audio raises and commit_audio / create_response fail on
\* None; on a closing or closed connection ws.send raises ConnectionClosed
UpstreamCanSend(s) == session[s].ws = "set" /\ transport[s].state = "open"

\* ws.send putting the message in front of what was sent before
ws_send_in_front(tr, s, type, w, k) ==
    [tr EXCEPT ![s].sent = <<[type |-> type, from |-> w, k |-> k]>> \o @]

\* ws.send(json.dumps(message)) on the upstream connection of session s, for
\* the k-th message of the browser on websocket w
ws_send(tr, s, type, w, k) ==
    [tr EXCEPT ![s].sent = Append(@, [type |-> type, from |-> w, k |-> k])]

\* one iteration of the receive loop of websocket_endpoint on message m of
\* the browser: a non-empty audio goes to session.send_audio, stop_speaking
\* to commit_audio (create_response follows in the next step), anything
\* else is ignored; a raise leads to close_session in the finally clause
receive_json(w, m) ==
    LET s == conn[w].sid
        k == conn[w].submitted + 1
        sends == \/ m.type = "audio" /\ m.n > 0
                 \/ m.type = "stop_speaking"
    IN
    /\ conn[w].pc = "receive"
    /\ conn[w].link = "open"
    /\ last' = NoCall
    /\ UNCHANGED <<clients, usage, resets, consumed>>
    /\ IF sends /\ ~UpstreamCanSend(s)
       THEN close_session(w)
       ELSE /\ conn' = [conn EXCEPT
                   ![w].submitted = k,
                   ![w].pc = IF m.type = "stop_speaking" THEN "committed"
                             ELSE "receive"]
            /\ transport' =
                   IF m.type = "audio" /\ m.n > 0
                   THEN ws_send(transport, s, "input_audio_buffer.append", w, k)
                   ELSE IF m.type = "stop_speaking"
                   THEN ws_send(transport, s, "input_audio_buffer.commit", w, k)
                   ELSE transport
            /\ UNCHANGED <<session, active_sessions>>

\* the handler resumes after commit_audio: create_response, then back to
\* receive_json; a raise leads to close_session
create_response(w) ==
    LET s == conn[w].sid IN
    /\ conn[w].pc = "committed"
    /\ last' = NoCall
    /\ UNCHANGED <<clients, usage, resets, consumed>>
    /\ IF ~UpstreamCanSend(s)
       THEN close_session(w)
       ELSE /\ conn' = [conn EXCEPT ![w].pc = "receive"]
            /\ transport' = ws_send(transport, s, "response.create", w,
                                    conn[w].submitted)
            /\ UNCHANGED <<session, active_sessions>>

\* the endpoint handler returning from a failed receive without close_session
receive_fails_without_close(w) ==
    /\ conn[w].pc = "receive"
    /\ conn[w].link # "open"
    /\ conn' = [conn EXCEPT ![w].pc = "done"]
    /\ last' = NoCall
    /\ UNCHANGED <<clients, usage, session, transport, active_sessions, resets, consumed>>

\* receive_json raises because the browser is gone or the link was closed
receive_fails(w) ==
    /\ conn[w].pc = "receive"
    /\ conn[w].link # "open"
    /\ close_session(w)
    /\ last' = NoCall
    /\ UNCHANGED <<clients, usage, resets, consumed>>

\* the browser disconnects
client_disconnects(w) ==
    /\ conn[w].pc \in {"receive", "committed"}
    /\ conn[w].link = "open"
    /\ conn' = [conn EXCEPT ![w].link = "disconnected"]
    /\ last' = NoCall
    /\ UNCHANGED <<clients, usage, session, transport, active_sessions, resets, consumed>>

\* close() called by close_session resumes: the cancelled relay task ended
close_task_awaited(w) ==
    /\ conn[w].pc = "await_task"
    /\ session[conn[w].sid].listen_task \notin Pending
    /\ Finish(CloseUpstream(World, conn[w].sid, w), w, conn[w].sid, active_sessions)
    /\ last' = NoCall
    /\ UNCHANGED <<clients, usage, resets, consumed>>

\* ... resumes: the upstream ws.close() returned, or raised: the exception
\* leaves close(), close_session and the finally clause of the endpoint
close_upstream_done(w, ok) ==
    /\ conn[w].pc = "up_closing"
    /\ IF ok
       THEN Finish(UpstreamClosed(World, conn[w].sid, w), w, conn[w].sid,
                   active_sessions)
       ELSE /\ conn' = [conn EXCEPT ![w].pc = "raised"]
            /\ UNCHANGED <<session, transport, active_sessions>>
    /\ last' = NoCall
    /\ UNCHANGED <<clients, usage, resets, consumed>>

\* ... resumes: client_ws.close() returned, close() returns
close_client_done(w) ==
    /\ conn[w].pc = "cl_closing"
    /\ Finish(Returned(World, conn[w].sid), w, conn[w].sid, active_sessions)
    /\ last' = NoCall
    /\ UNCHANGED <<clients, usage, resets, consumed>>

\* ------------------------------------------------------------ the program
NoUsage == [live |-> FALSE, ai_ms |-> 0, accepted |-> 0, denied |-> FALSE]
NoConn ==
    [pc |-> "idle", sid |-> 0, link |-> "new", close_calls |-> 0, log |-> <<>>,
     invoked |-> {}, submitted |-> 0]

Init ==
    /\ clients = [c \in Clients |-> 0]
    /\ usage = [u \in UsageIds |-> NoUsage]
    /\ session = [s \in SessionIds |-> NoSession]
    /\ transport = [s \in SessionIds |-> [state |-> "unopened", close_calls |-> 0, sent |-> <<>>]]
    /\ active_sessions = {}
    /\ conn = [w \in ConnIds |-> NoConn]
    /\ last = NoCall
    /\ resets = [c \in Clients |-> 0]
    /\ consumed = 0

\* two offers, two browser connections, resets
Next ==
    \/ \E c \in Clients : create_webrtc_offer(c)
    \/ \E c \in Clients : clear_client_usage(c)
    \/ \E s \in SessionIds, opened \in BOOLEAN, m \in HandshakeMsgs : initialize(s, opened, m)
    \/ consumed < MaxUpstream /\ \E s \in SessionIds, m \in MeteredMsgs : listen_to_openai(s, m)
    \/ \E s \in SessionIds : relay_close(s)
    \/ \E s \in SessionIds : relay_close_upstream_done(s, TRUE)
    \/ \E s \in SessionIds : relay_cancelled(s)
    \/ \E s \in SessionIds : relay_close_done(s)
    \/ \E s \in SessionIds : upstream_ends(s)
    \/ \E w \in ConnIds, s \in SessionIds : websocket_endpoint(w, s)
    \/ Submitted < MaxClientMsgs /\ \E w \in ConnIds, m \in ClientMsgs : receive_json(w, m)
    \/ \E w \in ConnIds : create_response(w)
    \/ \E w \in ConnIds : receive_fails(w)
    \/ \E w \in ConnIds : client_disconnects(w)
    \/ \E w \in ConnIds : close_task_awaited(w)
    \/ \E w \in ConnIds : close_upstream_done(w, TRUE)
    \/ \E w \in ConnIds : close_client_done(w)

Spec == Init /\ [][Next]_vars

\* one session fed every kind of upstream message, two browser connections
NextRelay ==
    \/ NextSessionId <= MaxRelayOffers /\ \E c \in Clients : create_webrtc_offer(c)
    \/ \E s \in SessionIds, opened \in BOOLEAN, m \in HandshakeMsgs : initialize(s, opened, m)
    \/ consumed < MaxRelayUpstream /\ \E s \in SessionIds, m \in UpstreamMsgs : listen_to_openai(s, m)
    \/ \E s \in SessionIds : relay_close(s)
    \/ \E s \in SessionIds : relay_close_upstream_done(s, TRUE)
    \/ \E s \in SessionIds : relay_cancelled(s)
    \/ \E s \in SessionIds : relay_close_done(s)
    \/ \E s \in SessionIds : upstream_ends(s)
    \/ \E w \in ConnIds, s \in SessionIds : websocket_endpoint(w, s)
    \/ Submitted < MaxClientMsgs /\ \E w \in ConnIds, m \in ClientMsgs : receive_json(w, m)
    \/ \E w \in ConnIds : create_response(w)
    \/ \E w \in ConnIds : receive_fails(w)
    \/ \E w \in ConnIds : client_disconnects(w)
    \/ \E w \in ConnIds : close_task_awaited(w)
    \/ \E w \in ConnIds : close_upstream_done(w, TRUE)
    \/ \E w \in ConnIds : close_client_done(w)

SpecRelay == Init /\ [][NextRelay]_vars

\* one session under browser traffic on two websockets
NextUplink ==
    \/ NextSessionId <= MaxRelayOffers /\ \E c \in Clients : create_webrtc_offer(c)
    \/ \E s \in SessionIds, opened \in BOOLEAN, m \in HandshakeMsgs : initialize(s, opened, m)
    \/ consumed < MaxUplinkUpstream /\ \E s \in SessionIds, m \in MeteredMsgs : listen_to_openai(s, m)
    \/ \E s \in SessionIds : relay_close(s)
    \/ \E s \in SessionIds : relay_close_upstream_done(s, TRUE)
    \/ \E s \in SessionIds : relay_cancelled(s)
    \/ \E s \in SessionIds : relay_close_done(s)
    \/ \E s \in SessionIds : upstream_ends(s)
    \/ \E w \in ConnIds, s \in SessionIds : websocket_endpoint(w, s)
    \/ Submitted < MaxUplinkMsgs /\ \E w \in ConnIds, m \in ClientMsgs : receive_json(w, m)
    \/ \E w \in ConnIds : create_response(w)
    \/ \E w \in ConnIds : receive_fails(w)
    \/ \E w \in ConnIds : client_disconnects(w)
    \/ \E w \in ConnIds : close_task_awaited(w)
    \/ \E w \in ConnIds : close_upstream_done(w, TRUE)
    \/ \E w \in ConnIds : close_client_done(w)

SpecUplink == Init /\ [][NextUplink]_vars

\* one session whose upstream ws.close() may raise
NextFaults ==
    \/ NextSessionId <= MaxRelayOffers /\ \E c \in Clients : create_webrtc_offer(c)
    \/ \E s \in SessionIds, opened \in BOOLEAN, m \in HandshakeMsgs : initialize(s, opened, m)
    \/ consumed < MaxUplinkUpstream /\ \E s \in SessionIds, m \in MeteredMsgs : listen_to_openai(s, m)
    \/ \E s \in SessionIds : relay_close(s)
    \/ \E s \in SessionIds, ok \in BOOLEAN : relay_close_upstream_done(s, ok)
    \/ \E s \in SessionIds : relay_cancelled(s)
    \/ \E s \in SessionIds : relay_close_done(s)
    \/ \E s \in SessionIds : upstream_ends(s)
    \/ \E w \in ConnIds, s \in SessionIds : websocket_endpoint(w, s)
    \/ Submitted < MaxClientMsgs /\ \E w \in ConnIds, m \in ClientMsgs : receive_json(w, m)
    \/ \E w \in ConnIds : create_response(w)
    \/ \E w \in ConnIds : receive_fails(w)
    \/ \E w \in ConnIds : client_disconnects(w)
    \/ \E w \in ConnIds : close_task_awaited(w)
    \/ \E w \in ConnIds, ok \in BOOLEAN : close_upstream_done(w, ok)
    \/ \E w \in ConnIds : close_client_done(w)

SpecFaults == Init /\ [][NextFaults]_vars

\* one session, resets and limit-status requests
NextLimit ==
    \/ NextSessionId <= MaxRelayOffers /\ \E c \in Clients : create_webrtc_offer(c)
    \/ \E c \in Clients : get_limit_status(c)
    \/ \E c \in Clients : clear_client_usage(c)
    \/ \E s \in SessionIds, opened \in BOOLEAN, m \in HandshakeMsgs : initialize(s, opened, m)
    \/ consumed < MaxCloseUpstream /\ \E s \in SessionIds, m \in MeteredMsgs : listen_to_openai(s, m)
    \/ \E s \in SessionIds : relay_close(s)
    \/ \E s \in SessionIds : relay_close_upstream_done(s, TRUE)
    \/ \E s \in SessionIds : relay_cancelled(s)
    \/ \E s \in SessionIds : relay_close_done(s)
    \/ \E s \in SessionIds : upstream_ends(s)
    \/ \E w \in ConnIds, s \in SessionIds : websocket_endpoint(w, s)
    \/ Submitted < MaxClientMsgs /\ \E w \in ConnIds, m \in ClientMsgs : receive_json(w, m)
    \/ \E w \in ConnIds : create_response(w)
    \/ \E w \in ConnIds : receive_fails(w)
    \/ \E w \in ConnIds : client_disconnects(w)
    \/ \E w \in ConnIds : close_task_awaited(w)
    \/ \E w \in ConnIds : close_upstream_done(w, TRUE)
    \/ \E w \in ConnIds : close_client_done(w)

SpecLimit == Init /\ [][NextLimit]_vars

\* one session fed audio deltas of the sizes of ChargeSizes
NextCharge ==
    \/ NextSessionId <= MaxRelayOffers /\ \E c \in Clients : create_webrtc_offer(c)
    \/ \E s \in SessionIds, opened \in BOOLEAN, m \in HandshakeMsgs : initialize(s, opened, m)
    \/ consumed < MaxChargeUpstream /\ \E s \in SessionIds, m \in ChargeMsgs : listen_to_openai(s, m)
    \/ \E s \in SessionIds : relay_close(s)
    \/ \E s \in SessionIds : relay_close_upstream_done(s, TRUE)
    \/ \E s \in SessionIds : relay_cancelled(s)
    \/ \E s \in SessionIds : relay_close_done(s)
    \/ \E s \in SessionIds : upstream_ends(s)
    \/ \E w \in ConnIds, s \in SessionIds : websocket_endpoint(w, s)
    \/ Submitted < MaxClientMsgs /\ \E w \in ConnIds, m \in ClientMsgs : receive_json(w, m)
    \/ \E w \in ConnIds : create_response(w)
    \/ \E w \in ConnIds : receive_fails(w)
    \/ \E w \in ConnIds : client_disconnects(w)
    \/ \E w \in ConnIds : close_task_awaited(w)
    \/ \E w \in ConnIds : close_upstream_done(w, TRUE)
    \/ \E w \in ConnIds : close_client_done(w)

SpecCharge == Init /\ [][NextCharge]_vars

\* one session from its creation to its teardown.  The event loop resumes
\* every task whose await has completed: the relay task after its send,
\* its socket closes and its cancellation, an endpoint handler after a
\* failed receive, after commit_audio, after the cancelled relay task
\* ended and after its socket closes
NextClose ==
    \/ NextSessionId <= MaxRelayOffers /\ \E c \in Clients : create_webrtc_offer(c)
    \/ \E s \in SessionIds, opened \in BOOLEAN, m \in HandshakeMsgs : initialize(s, opened, m)
    \/ consumed < MaxCloseUpstream /\ \E s \in SessionIds, m \in MeteredMsgs : listen_to_openai(s, m)
    \/ \E s \in SessionIds : relay_close(s)
    \/ \E s \in SessionIds : relay_close_upstream_done(s, TRUE)
    \/ \E s \in SessionIds : relay_cancelled(s)
    \/ \E s \in SessionIds : relay_close_done(s)
    \/ \E s \in SessionIds : upstream_ends(s)
    \/ \E w \in ConnIds, s \in SessionIds : websocket_endpoint(w, s)
    \/ Submitted < MaxClientMsgs /\ \E w \in ConnIds, m \in ClientMsgs : receive_json(w, m)
    \/ \E w \in ConnIds : create_response(w)
    \/ \E w \in ConnIds : receive_fails(w)
    \/ \E w \in ConnIds : client_disconnects(w)
    \/ \E w \in ConnIds : close_task_awaited(w)
    \/ \E w \in ConnIds : close_upstream_done(w, TRUE)
    \/ \E w \in ConnIds : close_client_done(w)

FairRelay ==
    /\ Init /\ [][NextClose]_vars
    /\ \A s \in SessionIds :
          /\ WF_vars(relay_close(s))
          /\ WF_vars(relay_close_upstream_done(s, TRUE))
          /\ WF_vars(relay_cancelled(s))
          /\ WF_vars(relay_close_done(s))
    /\ \A w \in ConnIds :
          /\ WF_vars(receive_fails(w))
          /\ WF_vars(create_response(w))
          /\ WF_vars(close_task_awaited(w))
          /\ WF_vars(close_upstream_done(w, TRUE))
          /\ WF_vars(close_client_done(w))

\* ------------------------------------------------------------------ claims
\* sessions that hold a usage counter
Metering == {s \in SessionIds : session[s].usage # 0}

\* C1: on every usage counter, whichever sessions charge it, the amounts
\* accepted by add_ai_ms since the counter was created sum to at most
\* MAX_AI_MS, and a call whose amount would take the counter above
\* MAX_AI_MS returns false
C1_AcceptedWithinQuota ==
    /\ \A u \in UsageIds : usage[u].accepted <= MAX_AI_MS
    /\ last.metered /\ last.before.ai_ms + last.amount > MAX_AI_MS => ~last.ok

\* a call by one session is rejected on a counter that accepted an amount
\* from another session before
C1_Witness ==
    /\ last.metered /\ ~last.ok
    /\ last.before.ai_ms + last.amount > MAX_AI_MS
    /\ \E s \in Metering :
        s # last.sid /\ session[s].usage = last.obj /\ session[s].accepted > 0

\* C2: once add_ai_ms has returned false on a client's counter, every later
\* call on it returns false, whatever the amount
C2_DenialSticky ==
    last.metered /\ last.before.denied => ~last.ok

\* sessions of one client created with no clear_client_usage in between
SameEpoch(s1, s2) ==
    /\ s1 # s2
    /\ s1 \in Metering /\ s2 \in Metering
    /\ session[s1].client_id = session[s2].client_id
    /\ session[s1].epoch = session[s2].epoch

\* C3: two sessions of one client (none reset in between) hold the same
\* counter; the amounts accepted from both sum to at most MAX_AI_MS, so
\* amounts a with a <= MAX_AI_MS < 2a are never accepted from both; the
\* attempt on the fresh counter is accepted and the attempt of the other
\* session that follows is rejected
C3_SharedCounter ==
    \A s1, s2 \in SessionIds : SameEpoch(s1, s2) =>
        /\ session[s1].usage = session[s2].usage
        /\ session[s1].accepted + session[s2].accepted <= MAX_AI_MS
        /\ last.metered /\ last.sid = s1 /\ last.amount <= MAX_AI_MS
              /\ session[s2].accepted = 0 /\ last.before.ai_ms = 0
              => last.ok
        /\ last.metered /\ last.sid = s2 /\ 2 * last.amount > MAX_AI_MS
              /\ session[s1].accepted >= last.amount
              => ~last.ok

\* the second of two attempts of 20000 ms by two sessions was just rejected
C3_Witness ==
    \E s1, s2 \in SessionIds :
        /\ SameEpoch(s1, s2)
        /\ session[s1].accepted = 20000
        /\ last.metered /\ last.sid = s2 /\ last.amount = 20000 /\ ~last.ok
        /\ session[s1].listen_task = "recv"

\* C8: an offer for a client whose counter is at the quota is answered with
\* the limit error and opens no upstream connection, creates no relay task
\* and registers nothing
C8_NoSessionAtQuota ==
    /\ [][\A s \in SessionIds :
            /\ session[s].phase = "unused" /\ session'[s].phase # "unused"
            /\ clients[session'[s].client_id] # 0
            /\ usage[clients[session'[s].client_id]].ai_ms >= MAX_AI_MS
            => /\ session'[s].phase = "limit"
               /\ transport' = transport
               /\ active_sessions' = active_sessions]_vars
    /\ [](\A s \in SessionIds : session[s].phase = "limit" =>
            /\ transport[s].state = "unopened"
            /\ session[s].listen_task = "none"
            /\ s \notin active_sessions)

\* an offer was refused while an earlier session of the client exists
C8_Witness ==
    \E s \in SessionIds :
        /\ session[s].phase = "limit"
        /\ usage[clients[session[s].client_id]].ai_ms = MAX_AI_MS
        /\ \E s0 \in SessionIds : session[s0].phase = "live"

\* C9: a failed initialize() leaves the registry unchanged, a successful one
\* registers the session; every registered session has received the
\* session.created acknowledgment on an opened transport
C9_RegisteredAfterHandshake ==
    /\ [][\A s \in SessionIds : session[s].phase = "connecting" =>
            /\ session'[s].phase = "failed" => active_sessions' = active_sessions
            /\ session'[s].phase = "live" => active_sessions' = active_sessions \cup {s}
            /\ session'[s].phase = "live" => s \notin active_sessions]_vars
    /\ [](\A s \in active_sessions :
            /\ session[s].phase = "live"
            /\ session[s].ack = "session.created"
            /\ transport[s].state # "unopened")

\* one handshake failed on a wrong first message beside a registered session
C9_Witness ==
    \E s1, s2 \in SessionIds :
        /\ session[s1].phase = "failed" /\ session[s1].ack = "session.updated"
        /\ transport[s1].state = "open"
        /\ s1 \notin active_sessions /\ s2 \in active_sessions

\* the LIMIT_REACHED errors delivered on the links of session s, by position
LimitErrors(s) ==
    {p \in UNION {{<<w, i>> : i \in DOMAIN conn[w].log} : w \in ConnIds} :
        conn[p[1]].sid = s /\ conn[p[1]].log[p[2]] = LimitError}

\* CLOSED: not active, upstream connection closed, attached link closed
Closed(s) ==
    /\ ~session[s].is_active
    /\ transport[s].state = "closed"
    /\ session[s].client_ws # 0 => conn[session[s].client_ws].link # "open"

\* C4: when the relay loop of a session whose attached link is connected
\* meters an audio event and the meter denies it, the link is sent the
\* LIMIT_REACHED error and nothing else in that step; the links of a
\* session receive at most one such error, and none of them receives
\* anything after it; and the session then reaches CLOSED
C4_LimitThenClosed ==
    /\ [][\A s \in SessionIds :
            /\ last'.metered /\ ~last'.ok /\ last'.sid = s
            /\ session[s].client_ws # 0 /\ CanSend(conn, session[s].client_ws)
            => /\ conn' = [conn EXCEPT ![session[s].client_ws].log =
                                           Append(@, LimitError)]
               /\ session'[s].listen_task = "limit_sent"]_vars
    /\ [](\A s \in SessionIds :
            /\ Cardinality(LimitErrors(s)) <= 1
            /\ session[s].listen_task \in {"limit_sent", "close_up", "close_cl"}
                  => Cardinality(LimitErrors(s)) = 1)
    /\ [][\A s \in SessionIds, w \in ConnIds :
            conn[w].sid = s /\ LimitErrors(s) # {}
            => conn'[w].log = conn[w].log]_vars
    /\ \A s \in SessionIds :
          (session[s].listen_task = "limit_sent") ~> Closed(s)

\* the relay task closed the session itself after one LIMIT_REACHED error
\* that followed a forwarded event
C4_Witness ==
    \E s \in SessionIds :
        /\ session[s].listen_task = "done" /\ session[s].closed /\ Closed(s)
        /\ session[s].client_ws # 0
        /\ Len(conn[session[s].client_ws].log) = 2
        /\ conn[session[s].client_ws].log[2] = LimitError
        /\ conn[session[s].client_ws].link = "closed"

\* C5: on every link the events relayed from upstream carry strictly
\* increasing positions of the upstream sequence, no position is delivered
\* on two links of a session, and every step that delivers something on an
\* attached link appends, at the end, the translation of the upstream
\* message just consumed or the LIMIT_REACHED error
C5_RelayFifo ==
    /\ [](\A w \in ConnIds : \A i, j \in DOMAIN conn[w].log :
            i < j /\ conn[w].log[i].seq > 0 /\ conn[w].log[j].seq > 0
            => conn[w].log[i].seq < conn[w].log[j].seq)
    /\ [](\A w1, w2 \in ConnIds :
            w1 # w2 /\ conn[w1].sid = conn[w2].sid =>
            \A i \in DOMAIN conn[w1].log, j \in DOMAIN conn[w2].log :
                conn[w1].log[i].seq > 0 => conn[w1].log[i].seq # conn[w2].log[j].seq)
    /\ [][\A w \in ConnIds :
            conn[w].sid # 0 /\ conn'[w].log # conn[w].log
            => /\ last'.made
               /\ w = session[last'.sid].client_ws
               /\ session'[last'.sid].seq = session[last'.sid].seq + 1
               /\ \/ conn'[w].log = Append(conn[w].log,
                                           listen(last'.msg, session'[last'.sid].seq))
                  \/ conn'[w].log = Append(conn[w].log, LimitError)
               /\ conn'[w].log[Len(conn'[w].log)] # NoEvent]_vars

\* a link observed the first and the third upstream message, the second
\* one having been dropped
C5_Witness ==
    \E w \in ConnIds :
        /\ Len(conn[w].log) = 2
        /\ conn[w].log[1].seq = 1 /\ conn[w].log[2].seq = 3
        /\ last.made /\ ~last.metered

\* the types of the events of the client-facing stream
ClientEventTypes ==
    {"audio", "ai_transcript", "user_transcript", "response_started",
     "response_done", "error"}

\* upstream message types that yield nothing
DroppedTypes ==
    {UnknownType, NoType, NonStringType, "session.created", "session.updated"}

\* C6: a relay step on an upstream message whose type is unknown, missing,
\* not a string, session.created or session.updated delivers nothing on
\* any link and leaves the relay task waiting for the next message; every
\* event the relay delivers has a type of the client-facing stream
C6_UnknownDropped ==
    /\ [](\A w \in ConnIds : \A i \in DOMAIN conn[w].log :
            conn[w].log[i] # NotFoundError
            => conn[w].log[i].type \in ClientEventTypes)
    /\ [][last'.made /\ last'.msg.type \in DroppedTypes
            => /\ conn' = conn
               /\ session'[last'.sid].listen_task = "recv"
               /\ session'[last'.sid].is_active]_vars

\* a message without a string type was just dropped on a session that
\* relayed an event before and goes on relaying
C6_Witness ==
    /\ last.made /\ last.msg.type = NonStringType
    /\ session[last.sid].listen_task = "recv"
    /\ session[last.sid].client_ws # 0
    /\ conn[session[last.sid].client_ws].link = "open"
    /\ Len(conn[session[last.sid].client_ws].log) = 1

\* C7: once a call of close() on a session has returned, no later call
\* invokes close on the upstream transport or on a link of the session
C7_CloseOnce ==
    [][\A s \in SessionIds : session[s].closed =>
        /\ transport'[s].close_calls = transport[s].close_calls
        /\ \A w \in ConnIds : conn[w].sid = s =>
              conn'[w].close_calls = conn[w].close_calls]_vars

\* C10: no close_session call ends in a KeyError, and two endpoint
\* handlers of one session never both invoke close on the upstream
\* transport, nor both on the client link
C10_NoDoubleRelease ==
    /\ \A w \in ConnIds : conn[w].pc # "KeyError"
    /\ \A w1, w2 \in ConnIds :
          w1 # w2 /\ conn[w1].sid = conn[w2].sid
          => conn[w1].invoked \cap conn[w2].invoked = {}

\* C11: once close() has begun on a session (is_active is False again),
\* nothing more is sent on its upstream connection for the browser
C11_NoSendAfterClose ==
    [][\A s \in SessionIds :
        session[s].phase = "live" /\ ~session[s].is_active
        => transport'[s].sent = transport[s].sent]_vars

\* C12: is_active becomes true only in the step in which initialize()
\* receives the session.created acknowledgment, together with the creation
\* of the relay task; a session whose handshake failed stays failed, is
\* never active and never has a relay task
C12_ActiveAfterHandshake ==
    /\ [](\A s \in SessionIds :
            /\ session[s].is_active =>
                  /\ session[s].phase = "live"
                  /\ session[s].ack = "session.created"
                  /\ transport[s].state # "unopened"
            /\ session[s].phase = "failed" =>
                  ~session[s].is_active /\ session[s].listen_task = "none")
    /\ [][\A s \in SessionIds :
            /\ ~session[s].is_active /\ session'[s].is_active =>
                  /\ session[s].phase = "connecting"
                  /\ session'[s].ack = "session.created"
                  /\ session'[s].listen_task = "recv"
            /\ session[s].listen_task = "none" /\ session'[s].listen_task # "none"
                  => session'[s].is_active
            /\ session[s].phase = "failed" => session'[s] = session[s]]_vars

\* a session whose connection attempt raised, beside an active session
C12_Witness ==
    \E s1, s2 \in SessionIds :
        /\ session[s1].phase = "failed" /\ transport[s1].state = "unopened"
        /\ ~session[s1].is_active /\ session[s1].listen_task = "none"
        /\ session[s2].is_active /\ session[s2].listen_task = "recv"

\* the endpoint handler on websocket w has left close_session, normally or
\* by an exception, after calling close() on the session
Finished(w) ==
    /\ conn[w].pc \in {"done", "raised", "KeyError"}
    /\ conn[w].invoked # {}

\* C13: whatever step of close() fails, the call of close_session does not
\* end with the exception of that step, and when it has ended the session
\* is not active, its upstream connection is closed, the websocket of the
\* handler (if it is the attached one) is closed and the session
\* identifier is no longer registered
C13_TeardownCompletes ==
    \A w \in ConnIds :
        /\ conn[w].pc # "raised"
        /\ Finished(w) =>
              /\ ~session[conn[w].sid].is_active
              /\ transport[conn[w].sid].state = "closed"
              /\ session[conn[w].sid].client_ws = w => conn[w].link # "open"
              /\ conn[w].sid \notin active_sessions

\* C14: when the upstream connection of an active session with a connected
\* browser has ended, the session becomes CLOSED and leaves the registry,
\* whatever the browser does
C14_UpstreamEndCloses ==
    \A s \in SessionIds :
        (/\ session[s].is_active /\ transport[s].state = "closed"
         /\ session[s].client_ws # 0
         /\ conn[session[s].client_ws].link = "open"
         /\ conn[session[s].client_ws].pc = "receive")
        ~> (Closed(s) /\ s \notin active_sessions)

\* C15: when the receive of an endpoint handler attached to a registered
\* session fails (the browser disconnected, or the websocket was closed),
\* then the relay task of the session terminates, its upstream connection
\* is closed and its identifier leaves the registry
C15_DisconnectCloses ==
    \A w \in ConnIds :
        (/\ conn[w].pc = "receive" /\ conn[w].link # "open"
         /\ conn[w].sid \in active_sessions)
        ~> (/\ conn[w].sid \in SessionIds
            /\ session[conn[w].sid].listen_task \notin Pending
            /\ transport[conn[w].sid].state = "closed"
            /\ conn[w].sid \notin active_sessions)

\* the handler of a browser that disconnected cancelled the relay task,
\* closed the session and removed it
C15_Witness ==
    \E w \in ConnIds :
        /\ conn[w].pc = "done" /\ conn[w].link = "disconnected"
        /\ conn[w].invoked = {"upstream", "link"}
        /\ session[conn[w].sid].listen_task = "cancelled"
        /\ transport[conn[w].sid].state = "closed"
        /\ conn[w].sid \notin active_sessions

\* the endpoint handler on websocket w is inside close() past the await of
\* the relay task, or has left it
PastAwait(w) ==
    \/ conn[w].pc \in {"up_closing", "cl_closing", "raised", "KeyError"}
    \/ conn[w].pc = "done" /\ conn[w].invoked # {}

\* C16: a close() run by an endpoint handler requests the cancellation of
\* a relay task that has not terminated and waits; it invokes the close
\* of the upstream connection only in a state in which the relay task has
\* terminated, and the relay task has terminated whenever the call is past
\* its await or has returned
C16_CancelBeforeRelease ==
    /\ [](\A w \in ConnIds :
            PastAwait(w) => session[conn[w].sid].listen_task \notin Pending)
    /\ [][\A w \in ConnIds :
            /\ "upstream" \in conn'[w].invoked /\ "upstream" \notin conn[w].invoked
                  => /\ session[conn'[w].sid].listen_task \notin Pending
                     /\ session'[conn'[w].sid].listen_task \notin Pending
            /\ conn[w].pc # "await_task" /\ conn'[w].pc = "await_task"
                  => /\ session[conn[w].sid].listen_task \in Pending
                     /\ session'[conn[w].sid].listen_task = "cancelling"
                     /\ transport' = transport]_vars

\* a handler closes the upstream connection after the relay task, which had
\* forwarded an event, was cancelled
C16_Witness ==
    \E w \in ConnIds :
        /\ conn[w].pc = "up_closing"
        /\ session[conn[w].sid].listen_task = "cancelled"
        /\ session[conn[w].sid].seq > 0
        /\ transport[conn[w].sid].close_calls = 1

\* C17: the relay task that sent the limit error enters close() without
\* cancelling or awaiting itself: its next step marks the session not
\* active and invokes the close of the upstream connection at once; from
\* there the upstream connection and the attached link get closed and the
\* relay task terminates
C17_SelfCloseTerminates ==
    /\ [][\A s \in SessionIds :
            session[s].listen_task = "limit_sent"
            /\ session'[s].listen_task \notin {"limit_sent", "cancelling"}
            => /\ session'[s].listen_task \in {"close_up", "close_cl", "done"}
               /\ ~session'[s].is_active
               /\ transport'[s].state = "closed"
               /\ session[s].ws = "set" =>
                     /\ session'[s].listen_task = "close_up"
                     /\ transport'[s].close_calls = transport[s].close_calls + 1]_vars
    /\ [](\A s \in SessionIds :
            session[s].listen_task \in {"close_up", "close_cl"} =>
                ~session[s].is_active /\ transport[s].state = "closed")
    /\ \A s \in SessionIds :
          (session[s].listen_task = "limit_sent")
          ~> (/\ session[s].listen_task \in {"done", "cancelled"}
              /\ Closed(s))

\* the relay task went through its own close() to the end while the
\* endpoint handler was still waiting in its receive
C17_Witness ==
    \E s \in SessionIds, w \in ConnIds :
        /\ session[s].listen_task = "done" /\ session[s].closed
        /\ session[s].client_ws = w /\ conn[w].pc = "receive"
        /\ conn[w].link = "closed" /\ conn[w].close_calls = 1
        /\ transport[s].close_calls = 1 /\ session[s].ws = "None"

\* C18: on the upstream connection of every session the messages sent for
\* one browser websocket follow the order of submission: their submission
\* numbers never decrease, two messages carry the same number only when
\* they are the commit and the response.create of one stop_speaking, in
\* that order, and every response.create comes after its commit; each step
\* sends at most one message, after all those sent before
C18_UplinkFifo ==
    /\ [](\A s \in SessionIds :
            LET sent == transport[s].sent IN
            /\ \A i \in DOMAIN sent :
                  /\ conn[sent[i].from].sid = s
                  /\ sent[i].k \in 1..conn[sent[i].from].submitted
                  /\ sent[i].type = "response.create" =>
                        \E j \in 1..(i - 1) :
                            /\ sent[j].type = "input_audio_buffer.commit"
                            /\ sent[j].from = sent[i].from /\ sent[j].k = sent[i].k
            /\ \A i, j \in DOMAIN sent :
                  i < j /\ sent[i].from = sent[j].from =>
                      /\ sent[i].k <= sent[j].k
                      /\ sent[i].k = sent[j].k =>
                            /\ sent[i].type = "input_audio_buffer.commit"
                            /\ sent[j].type = "response.create")
    /\ [][\A s \in SessionIds :
            transport'[s].sent # transport[s].sent =>
                /\ Len(transport'[s].sent) = Len(transport[s].sent) + 1
                /\ SubSeq(transport'[s].sent, 1, Len(transport[s].sent))
                      = transport[s].sent]_vars

\* a browser's audio chunk, then the commit and the response.create of its
\* stop_speaking, went upstream in that order
C18_Witness ==
    \E s \in SessionIds, w \in ConnIds :
        /\ Len(transport[s].sent) = 3
        /\ transport[s].sent[1] = [type |-> "input_audio_buffer.append", from |-> w, k |-> 1]
        /\ transport[s].sent[2] = [type |-> "input_audio_buffer.commit", from |-> w, k |-> 2]
        /\ transport[s].sent[3] = [type |-> "response.create", from |-> w, k |-> 2]

\* C19: every counter stays within 0..MAX_AI_MS and never decreases; the
\* counter registered for a client decreases only when clear_client_usage
\* removed it; a call of add_ai_ms that returns true adds exactly its
\* amount, one that returns false leaves the counter at MAX_AI_MS
C19_CounterInvariant ==
    /\ [](\A u \in UsageIds : usage[u].ai_ms \in 0..MAX_AI_MS)
    /\ [](last.metered =>
            /\ last.amount >= 0
            /\ last.ok => usage[last.obj].ai_ms = last.before.ai_ms + last.amount
            /\ ~last.ok => usage[last.obj].ai_ms = MAX_AI_MS)
    /\ [][/\ \A u \in UsageIds : usage'[u].ai_ms >= usage[u].ai_ms
          /\ \A c \in Clients :
                clients[c] # 0 /\ clients'[c] # 0 =>
                    usage'[clients'[c]].ai_ms >= usage[clients[c]].ai_ms]_vars

\* a call was denied on a counter that was partly used, which is now at
\* the quota
C19_Witness ==
    /\ last.metered /\ ~last.ok
    /\ last.before.ai_ms > 0 /\ last.before.ai_ms < MAX_AI_MS
    /\ last.amount <= MAX_AI_MS
    /\ usage[last.obj].ai_ms = MAX_AI_MS

\* C20: every active session of a client meters against the counter that
\* is registered for the client, the one the creation check reads
C20_OneCounterPerClient ==
    \A s \in Metering :
        session[s].is_active /\ clients[session[s].client_id] # 0
        => session[s].usage = clients[session[s].client_id]

\* the latest step was a call of get_limit_status
StatusCall(l) == "status" \in DOMAIN l

\* C21: get_limit_status reports limit_reached exactly when the counter
\* registered for the client is at or above MAX_AI_MS; the call changes the
\* value of no counter, no session, no connection and not the registry;
\* in the usage map it only creates a zero-valued entry for a client that
\* has none
C21_LimitStatusReadOnly ==
    /\ [](StatusCall(last) =>
            /\ clients[last.client_id] # 0
            /\ last.limit_reached
                  = (usage[clients[last.client_id]].ai_ms >= MAX_AI_MS))
    /\ [][StatusCall(last') =>
            /\ \A u \in UsageIds : usage'[u].ai_ms = usage[u].ai_ms
            /\ session' = session /\ transport' = transport /\ conn' = conn
            /\ active_sessions' = active_sessions
            /\ \A c \in Clients :
                  /\ clients[c] # 0 => clients'[c] = clients[c]
                  /\ clients[c] = 0 /\ clients'[c] # 0 =>
                        /\ c = last'.client_id
                        /\ ~usage[clients'[c]].live
                        /\ usage'[clients'[c]].ai_ms = 0]_vars

\* the limit is reported as reached to a client whose session, which drove
\* the counter to the quota, is still registered
C21_Witness ==
    /\ StatusCall(last) /\ last.limit_reached
    /\ usage[clients[last.client_id]].ai_ms = MAX_AI_MS
    /\ \E s \in active_sessions :
          session[s].client_id = last.client_id /\ session[s].accepted > 0

\* the events other than audio that listen() yields
NonAudioEventTypes ==
    {"ai_transcript", "user_transcript", "response_started", "response_done"}

\* C22: every recognized non-audio event the relay loop of an active
\* session consumes, with no link attached yet or with the attached link
\* connected, is delivered unchanged on a link of the session
C22_NoEventLoss ==
    [][\A s \in SessionIds :
        /\ last'.made /\ last'.sid = s
        /\ session[s].is_active
        /\ listen(last'.msg, session'[s].seq).type \in NonAudioEventTypes
        /\ session[s].client_ws # 0 => CanSend(conn, session[s].client_ws)
        => \E w \in ConnIds :
              /\ conn'[w].sid = s
              /\ conn'[w].log = Append(conn[w].log,
                                       listen(last'.msg, session'[s].seq))]_vars

\* C23: while the counter registered for a client is at MAX_AI_MS, no step
\* delivers an audio event on a link of a session of that client
C23_QuotaCeiling ==
    [][\A s \in Metering, w \in ConnIds :
        /\ clients[session[s].client_id] = session[s].usage
        /\ usage[session[s].usage].ai_ms = MAX_AI_MS
        /\ conn'[w].sid = s
        /\ conn'[w].log # conn[w].log
        => conn'[w].log[Len(conn'[w].log)].type # "audio"]_vars

\* C24: the amount the relay loop passes to add_ai_ms for an audio event of
\* n decoded bytes is n / 48 rounded down, and is not negative
C24_ChargedAmount ==
    last.metered =>
        /\ last.amount = last.msg.n \div 48
        /\ last.amount >= 0

\* a call of close() on session s is suspended inside close()
Closing(s) ==
    \/ session[s].listen_task \in {"close_up", "close_cl"}
    \/ \E w \in ConnIds :
          conn[w].sid = s /\ conn[w].pc \in {"await_task", "up_closing", "cl_closing"}

\* C25: in the step that deletes a session's entry from the registry, the
\* relay task of the session has terminated, its upstream connection and
\* its attached link are closed, and no call of close() on the session is
\* still suspended
C25_RemovalAfterClose ==
    [][\A s \in SessionIds :
        s \in active_sessions /\ s \notin active_sessions'
        => /\ session'[s].listen_task \notin Pending
           /\ transport'[s].state = "closed"
           /\ session'[s].client_ws # 0 =>
                 conn'[session'[s].client_ws].link # "open"
           /\ ~Closing(s)']_vars

\* C26: the link attached to a session is never replaced by another one,
\* and a step of the handler of a disconnected websocket leaves alone a
\* session whose attached link is another, connected websocket
C26_OneClientConnection ==
    [][\A s \in SessionIds :
        /\ session[s].client_ws # 0 =>
              session'[s].client_ws = session[s].client_ws
        /\ \A w \in ConnIds :
              /\ conn[w].sid = s /\ conn[w].link = "disconnected"
              /\ conn'[w].pc # conn[w].pc
              /\ session[s].client_ws \notin {0, w}
              /\ conn[session[s].client_ws].link = "open"
              => /\ session'[s].is_active = session[s].is_active
                 /\ session'[s].listen_task = session[s].listen_task
                 /\ transport'[s] = transport[s]]_vars

\* two sessions whose browsers connect, stay silent and disconnect, with
\* every task resumed by the event loop when its await has completed
NextPair ==
    \/ \E c \in Clients : create_webrtc_offer(c)
    \/ \E s \in SessionIds, opened \in BOOLEAN, m \in HandshakeMsgs : initialize(s, opened, m)
    \/ consumed < MaxPairUpstream /\ \E s \in SessionIds, m \in PairMsgs : listen_to_openai(s, m)
    \/ \E s \in SessionIds : relay_close(s)
    \/ \E s \in SessionIds : relay_close_upstream_done(s, TRUE)
    \/ \E s \in SessionIds : relay_cancelled(s)
    \/ \E s \in SessionIds : relay_close_done(s)
    \/ \E s \in SessionIds : upstream_ends(s)
    \/ \E w \in ConnIds, s \in SessionIds : websocket_endpoint(w, s)
    \/ \E w \in ConnIds : receive_fails(w)
    \/ \E w \in ConnIds : client_disconnects(w)
    \/ \E w \in ConnIds : close_task_awaited(w)
    \/ \E w \in ConnIds : close_upstream_done(w, TRUE)
    \/ \E w \in ConnIds : close_client_done(w)

FairPair ==
    /\ Init /\ [][NextPair]_vars
    /\ \A s \in SessionIds :
          /\ WF_vars(relay_close(s))
          /\ WF_vars(relay_close_upstream_done(s, TRUE))
          /\ WF_vars(relay_cancelled(s))
          /\ WF_vars(relay_close_done(s))
    /\ \A w \in ConnIds :
          /\ WF_vars(receive_fails(w))
          /\ WF_vars(close_task_awaited(w))
          /\ WF_vars(close_upstream_done(w, TRUE))
          /\ WF_vars(close_client_done(w))

\* the relay loop of session s has just failed to forward an event
SendFailed(s) ==
    /\ last.made /\ last.sid = s
    /\ listen(last.msg, session[s].seq) # NoEvent
    /\ session[s].client_ws # 0
    /\ ~CanSend(conn, session[s].client_ws)
    /\ session[s].listen_task = "done"

\* C27: a relay step of session s that has an event to forward on a link
\* that cannot be sent to ends the relay task of s normally and changes
\* neither a connection, nor the registry, nor a transport, nor another
\* session; afterwards s reaches CLOSED
C27_RelayErrorContained ==
    /\ [][\A s \in SessionIds :
            /\ last'.made /\ last'.sid = s
            /\ listen(last'.msg, session'[s].seq) # NoEvent
            /\ session[s].client_ws # 0
            /\ ~CanSend(conn, session[s].client_ws)
            => /\ session'[s].listen_task = "done"
               /\ conn' = conn
               /\ transport' = transport
               /\ active_sessions' = active_sessions
               /\ \A t \in SessionIds \ {s} : session'[t] = session[t]]_vars
    /\ \A s \in SessionIds : SendFailed(s) ~> Closed(s)

\* the relay task of one session ended on a failed send, the session was
\* closed and removed, and the other session is registered and relaying
C27_Witness ==
    \E s, t \in SessionIds :
        /\ s # t
        /\ session[s].listen_task = "done" /\ session[s].seq > 0
        /\ session[s].client_ws # 0
        /\ conn[session[s].client_ws].link = "disconnected"
        /\ conn[session[s].client_ws].log = <<>>
        /\ Closed(s) /\ s \notin active_sessions
        /\ t \in active_sessions /\ session[t].listen_task = "recv"
        /\ session[t].is_active

\* C28: a session whose handshake failed has no open upstream transport,
\* and every open upstream transport belongs to a registered session
C28_NoTransportLeak ==
    \A s \in SessionIds :
        /\ session[s].phase = "failed" => transport[s].state # "open"
        /\ transport[s].state = "open" => s \in active_sessions

\* C29: the value of a counter changes only in a relay step on an audio
\* event of a session that holds the counter and has a link attached; a
\* relay step on an audio event with no link attached changes no counter
\* and delivers nothing; a relay step on any other message changes no
\* counter
C29_ChargeOnlyAttached ==
    [][/\ \A u \in UsageIds :
            usage'[u].ai_ms # usage[u].ai_ms =>
                /\ last'.made /\ last'.metered /\ last'.obj = u
                /\ last'.msg.type = "response.audio.delta" /\ last'.msg.n > 0
                /\ session[last'.sid].usage = u
                /\ session[last'.sid].client_ws # 0
       /\ last'.made /\ session[last'.sid].client_ws = 0 =>
                /\ \A u \in UsageIds : usage'[u].ai_ms = usage[u].ai_ms
                /\ conn' = conn
       /\ last'.made /\ last'.msg.type # "response.audio.delta" =>
                \A u \in UsageIds : usage'[u].ai_ms = usage[u].ai_ms]_vars

\* 45 s of audio were consumed by a session with no link attached and the
\* counter of its client is still at zero
C29_Witness ==
    /\ last.made /\ ~last.metered
    /\ last.msg.type = "response.audio.delta" /\ last.msg.n = 2160000
    /\ session[last.sid].client_ws = 0
    /\ usage[session[last.sid].usage].ai_ms = 0
    /\ session[last.sid].listen_task = "recv"

\* C30: a websocket that presents an identifier that is not registered is
\* sent the "Session not found" message and closed, in one step that
\* changes no session, no transport, no counter, no other connection and
\* not the registry; its handler has ended, it is attached to no session
\* and it never called close() on one
C30_UnknownSessionRejected ==
    /\ [][\A w \in ConnIds :
            conn[w].pc = "idle" /\ conn'[w].pc # "idle"
            /\ conn'[w].sid \notin active_sessions
            => /\ conn'[w] = [NoConn EXCEPT !.pc = "done", !.sid = conn'[w].sid,
                                            !.link = "closed", !.close_calls = 1,
                                            !.log = <<NotFoundError>>]
               /\ \A v \in ConnIds \ {w} : conn'[v] = conn[v]
               /\ session' = session /\ transport' = transport
               /\ active_sessions' = active_sessions
               /\ usage' = usage /\ clients' = clients]_vars
    /\ [](\A w \in ConnIds :
            conn[w].log # <<>> /\ conn[w].log[1] = NotFoundError
            => /\ conn[w].log = <<NotFoundError>>
               /\ conn[w].pc = "done" /\ conn[w].link = "closed"
               /\ conn[w].invoked = {}
               /\ \A s \in SessionIds : session[s].client_ws # w)

\* a websocket was turned away with the identifier of a session that had
\* been closed and removed, while the counter of the client kept its value
C30_Witness ==
    \E w \in ConnIds :
        /\ conn[w].log = <<NotFoundError>> /\ conn[w].link = "closed"
        /\ session[conn[w].sid].phase = "live"
        /\ session[conn[w].sid].closed
        /\ conn[w].sid \notin active_sessions
        /\ usage[session[conn[w].sid].usage].ai_ms > 0

====
